---- MODULE Spec2Model ----
(***************************************************************************)
(* A model of sheetNinja.ts: the row codec (decodeRangeWith, _rawDecoder), *)
(* the sheet operations (append, overwrite), the merge engine              *)
(* (updateOrInsertBy) and the Mapper facade (upsert, deleteBy).            *)
(*                                                                         *)
(* The sheet is the grid of the spreadsheet service: a sequence of         *)
(* physical rows, each NumColumns cells wide.  A cell holds a string; the  *)
(* blank cell is "".  Records are functions from field names to values; a  *)
(* field a record does not have reads as Undef (JavaScript's undefined).   *)
(*                                                                         *)
(* What the model takes of the spreadsheet service: getLastRow and         *)
(* getLastColumn are the last row and column with content (0 on an empty   *)
(* sheet); setValues stores a defined value as it is and an undefined one  *)
(* as an empty cell, and grows the sheet to hold its range; a range of     *)
(* zero rows is either refused or read as an empty grid.                   *)
(*                                                                         *)
(* What the model takes of the callers: the identifier of a record is its  *)
(* field id, every incoming record has one, and every header names it.     *)
(*                                                                         *)
(* A call runs from a sheet of the initial set to its end; the calls of    *)
(* the merge engine are one step each, overwrite is one step per service   *)
(* call, so that the sheet between its calls is a state.                   *)
(***************************************************************************)
EXTENDS Integers, Sequences, FiniteSets

VARIABLES
    sheet,   \* the physical rows of the sheet
    pre,     \* the sheet as it was when the current call began
    op,      \* the call: its name and its arguments
    pc,      \* where the call stands
    local,   \* the call's local variables (overwrite: lastRow, data)
    log      \* the spreadsheet-service calls the call has made, in order

vars == <<sheet, pre, op, pc, local, log>>

\* ---------------------------------------------------------------- bounds

\* The longest incoming batch.
MaxBatch == 2

\* The most data rows of an initial sheet of the merge engine's runs.
MaxExisting == 2

\* The most data rows of an initial sheet of overwrite's and deleteBy's runs.
MaxData == 3

\* ---------------------------------------------------------------- values

\* JavaScript's undefined: what reading a missing field or index gives.
Undef == "undefined"

\* The value getValues returns for an empty cell.
Blank == ""

\* The identifiers and the values of field a of the incoming records.
Ids == {"1", "2"}
Vals == {"x"}

\* The identifiers and the cells of column a of the rows of the initial sheets:
\* identifier 3 is one no incoming record carries.
SheetIds == {"1", "2", "3"}
SheetVals == {"y"}

\* The unused physical rows below the content of an initial sheet: none (the
\* sheet is full) or one.
Spares == {0, 1}

\* The records of type T: the identifier is always there, field a may be missing.
Records ==
    {[id |-> i] : i \in Ids} \cup {[id |-> i, a |-> v] : i \in Ids, v \in Vals}

\* The header arguments: the persisted keys, in the column order of the caller.
Headers == {<<"id", "a">>, <<"a", "id">>, <<"id">>}

\* The header row of the initial sheets.
SheetHeader == <<"id", "a">>

\* The physical width of the sheet.
NumColumns == Len(SheetHeader) + 1

RECURSIVE SeqsUpTo(_, _)
SeqsUpTo(S, n) ==
    IF n = 0 THEN {<<>>}
    ELSE LET shorter == SeqsUpTo(S, n - 1)
         IN  shorter \cup {Append(s, x) : s \in {t \in shorter : Len(t) = n - 1}, x \in S}

Batches == SeqsUpTo(Records, MaxBatch)

\* The predicates of deleteBy: the record's identifier is one of a set.
Preds == SUBSET SheetIds

Max(S) == CHOOSE x \in S : \A y \in S : y <= x

\* ---------------------------------------------------------------- records

\* rec[key] of JavaScript.
Get(rec, key) == IF key \in DOMAIN rec THEN rec[key] ELSE Undef

\* values[n] of JavaScript, n counted from 0.
At(values, n) == IF n + 1 \in DOMAIN values THEN values[n + 1] ELSE Undef

\* The caller's identifier function: the record's id.
toKey(rec) == Get(rec, "id")

\* assign with its arguments swapped: the fields of the existing record win.
assignExistingWins(prev, upd) ==
    [k \in DOMAIN prev \cup DOMAIN upd |-> IF k \in DOMAIN prev THEN prev[k] ELSE upd[k]]

\* Object.assign({}, prev, upd): the union of the fields, upd's overriding.
assign(prev, upd) ==
    [k \in DOMAIN prev \cup DOMAIN upd |-> IF k \in DOMAIN upd THEN upd[k] ELSE prev[k]]

\* keys.map(key => entry[key])
project(keys, entry) == [n \in 1..Len(keys) |-> Get(entry, keys[n])]

\* ---------------------------------------------------------------- row codec

\* _rawDecoder reading one cell too far to the right.
rawDecoderShifted(keys, values) ==
    [k \in {keys[n] : n \in 1..Len(keys)} |->
        At(values, Max({n \in 1..Len(keys) : keys[n] = k}))]

\* keys.reduce((data, key, n) => { data[key] = values[n] }): a later column of
\* the same name overrides an earlier one.
rawDecoder(keys, values) ==
    [k \in {keys[n] : n \in 1..Len(keys)} |->
        At(values, Max({n \in 1..Len(keys) : keys[n] = k}) - 1)]

\* decodeRangeWith(range, _rawDecoder) on the grid range.getValues() returned:
\* row 0 is the keys, every later row one record.
decodeRangeWith(values) ==
    IF Len(values) = 0 THEN <<>>
    ELSE [i \in 1..(Len(values) - 1) |-> rawDecoder(values[1], values[i + 1])]

\* ---------------------------------------------------------------- the service

BlankRow == [c \in 1..NumColumns |-> Blank]

IsBlankRow(row) == \A c \in 1..Len(row) : row[c] = Blank

\* Sheet.getLastRow(): the last row that has content, 0 on an empty sheet.
getLastRow(cells) ==
    LET used == {r \in 1..Len(cells) : ~IsBlankRow(cells[r])}
    IN  IF used = {} THEN 0 ELSE Max(used)

\* Sheet.getLastColumn(): the last column that has content, 0 on an empty sheet.
getLastColumn(cells) ==
    LET used == {c \in 1..NumColumns : \E r \in 1..Len(cells) : cells[r][c] # Blank}
    IN  IF used = {} THEN 0 ELSE Max(used)

\* Range.getValues() of getRange(1, 1, numRows, numColumns).
getValues(cells, numRows, numColumns) ==
    [r \in 1..numRows |-> [c \in 1..numColumns |-> cells[r][c]]]

\* What the service stores for a value: an undefined value leaves the cell empty.
CellOf(v) == IF v = Undef THEN Blank ELSE v

\* Range.setValues(values) of getRange(row, 1, Len(values), width): the cells of
\* the range take the values, the sheet growing to hold the range.
setValues(cells, row, width, values) ==
    LET last == row + Len(values) - 1
        rows == IF last > Len(cells) THEN last ELSE Len(cells)
    IN  [r \in 1..rows |->
            [c \in 1..NumColumns |->
                IF r >= row /\ r <= last /\ c <= width
                THEN CellOf(values[r - row + 1][c])
                ELSE IF r <= Len(cells) THEN cells[r][c] ELSE Blank]]

\* Sheet.insertRowsAfter(afterPosition, howMany)
insertRowsAfter(cells, afterPosition, howMany) ==
    SubSeq(cells, 1, afterPosition)
        \o [r \in 1..howMany |-> BlankRow]
        \o SubSeq(cells, afterPosition + 1, Len(cells))

\* Sheet.deleteRows(rowPosition, howMany)
deleteRows(cells, rowPosition, howMany) ==
    SubSeq(cells, 1, rowPosition - 1)
        \o SubSeq(cells, rowPosition + howMany, Len(cells))

\* One entry of the log of service calls.
Call(name, row, n) == [call |-> name, row |-> row, n |-> n]

\* ---------------------------------------------------------------- decodeSheet

\* decodeSheetWith(sheet, _rawDecoder): getRange(1, 1, lastRow, lastColumn) and
\* decodeRangeWith.  On an empty sheet the range has no rows: the service either
\* refuses it (the call throws) or hands back an empty grid; the source does not
\* settle which, so both are outcomes.
decodeSheet(cells) ==
    IF getLastRow(cells) = 0
    THEN {[threw |-> TRUE, data |-> <<>>],
          [threw |-> FALSE, data |-> decodeRangeWith(<<>>)]}
    ELSE {[threw |-> FALSE,
           data |-> decodeRangeWith(
                        getValues(cells, getLastRow(cells), getLastColumn(cells)))]}

\* ---------------------------------------------------------------- append

\* append without its guard for an empty batch.
appendNoGuard(st, keys, data) ==
    LET start == getLastRow(st.cells) + 1
        values == [n \in 1..Len(data) |-> project(keys, data[n])]
    IN  [cells |-> setValues(st.cells, start, Len(keys), values),
         log |-> Append(st.log, Call("setValues", start, Len(data)))]

\* append starting on the last row instead of below it.
appendOnLastRow(st, keys, data) ==
    IF Len(data) = 0 THEN st
    ELSE LET start == getLastRow(st.cells)
             values == [n \in 1..Len(data) |-> project(keys, data[n])]
         IN  [cells |-> setValues(st.cells, start, Len(keys), values),
              log |-> Append(st.log, Call("setValues", start, Len(data)))]

\* append(sheet, keys, data) acting on st = [cells, log].
append(st, keys, data) ==
    IF Len(data) = 0 THEN st
    ELSE LET start == getLastRow(st.cells) + 1
             values == [n \in 1..Len(data) |-> project(keys, data[n])]
         IN  [cells |-> setValues(st.cells, start, Len(keys), values),
              log |-> Append(st.log, Call("setValues", start, Len(data)))]

\* ---------------------------------------------------------------- updateOrInsertBy

\* The reduce keeping the last record of every identifier instead of the first.
RECURSIVE dedupeLastWins(_, _, _, _)
dedupeLastWins(data, n, seen, bag) ==
    IF n >= Len(data) THEN bag
    ELSE LET item == data[n + 1]
             key == toKey(item)
             later == \E m \in (n + 2)..Len(data) : toKey(data[m]) = key
         IN  IF ~later
             THEN dedupeLastWins(data, n + 1, seen \cup {key}, Append(bag, item))
             ELSE dedupeLastWins(data, n + 1, seen, bag)

\* data.reduce(...).bag: the first record of every identifier, in batch order.
RECURSIVE dedupe(_, _, _, _)
dedupe(data, n, seen, bag) ==
    IF n >= Len(data) THEN bag
    ELSE LET item == data[n + 1]
             key == toKey(item)
         IN  IF key \notin seen
             THEN dedupe(data, n + 1, seen \cup {key}, Append(bag, item))
             ELSE dedupe(data, n + 1, seen, bag)

\* The inner loop without "found = true": a matched record is queued as well.
RECURSIVE scanRowsForgetFound(_, _, _, _, _, _, _)
scanRowsForgetFound(st, prevData, upd, header, duplicate, i, found) ==
    IF i >= Len(prevData) THEN [st |-> st, found |-> found]
    ELSE LET prev == prevData[i + 1]
         IN  IF toKey(upd) = toKey(prev)
             THEN LET updated == assign(prev, upd)
                      newValues == project(header, updated)
                      st2 == [cells |-> setValues(st.cells, i + 2, Len(header), <<newValues>>),
                              log |-> Append(st.log, Call("setValues", i + 2, 1))]
                  IN  IF ~duplicate THEN [st |-> st2, found |-> found]
                      ELSE scanRowsForgetFound(st2, prevData, upd, header, duplicate, i + 1, found)
             ELSE scanRowsForgetFound(st, prevData, upd, header, duplicate, i + 1, found)

\* The inner loop breaking after the first match whatever duplicate says.
RECURSIVE scanRowsAlwaysBreak(_, _, _, _, _, _, _)
scanRowsAlwaysBreak(st, prevData, upd, header, duplicate, i, found) ==
    IF i >= Len(prevData) THEN [st |-> st, found |-> found]
    ELSE LET prev == prevData[i + 1]
         IN  IF toKey(upd) = toKey(prev)
             THEN LET updated == assign(prev, upd)
                      newValues == project(header, updated)
                  IN  [st |-> [cells |-> setValues(st.cells, i + 2, Len(header), <<newValues>>),
                               log |-> Append(st.log, Call("setValues", i + 2, 1))],
                       found |-> TRUE]
             ELSE scanRowsAlwaysBreak(st, prevData, upd, header, duplicate, i + 1, found)

\* The inner loop from index i on: every matching row (the first only, unless
\* duplicate) is written with the merge of that row's record and upd.
RECURSIVE scanRows(_, _, _, _, _, _, _)
scanRows(st, prevData, upd, header, duplicate, i, found) ==
    IF i >= Len(prevData) THEN [st |-> st, found |-> found]
    ELSE LET prev == prevData[i + 1]
         IN  IF toKey(upd) = toKey(prev)
             THEN LET updated == assign(prev, upd)
                      newValues == project(header, updated)
                      st2 == [cells |-> setValues(st.cells, i + 2, Len(header), <<newValues>>),
                              log |-> Append(st.log, Call("setValues", i + 2, 1))]
                  IN  IF ~duplicate THEN [st |-> st2, found |-> TRUE]
                      ELSE scanRows(st2, prevData, upd, header, duplicate, i + 1, TRUE)
             ELSE scanRows(st, prevData, upd, header, duplicate, i + 1, found)

\* The outer loop from the n-th kept record on, then the append of newRecords.
RECURSIVE mergeFrom(_, _, _, _, _, _, _)
mergeFrom(st, merged, prevData, header, duplicate, n, newRecords) ==
    IF n >= Len(merged)
    THEN IF Len(newRecords) # 0 THEN append(st, header, newRecords) ELSE st
    ELSE LET upd == merged[n + 1]
             r == scanRows(st, prevData, upd, header, duplicate, 0, FALSE)
         IN  mergeFrom(r.st, merged, prevData, header, duplicate, n + 1,
                       IF ~r.found THEN Append(newRecords, upd) ELSE newRecords)

\* updateOrInsertBy(sheet, header, data, toKey, duplicate): the outcomes, each
\* [threw, cells, log].
updateOrInsertBy(cells, header, data, duplicate) ==
    IF Len(data) = 0 THEN {[threw |-> FALSE, cells |-> cells, log |-> <<>>]}
    ELSE LET merged == dedupe(data, 0, {}, <<>>)
         IN  {IF d.threw
              THEN [threw |-> TRUE, cells |-> cells, log |-> <<Call("getRange", 1, 0)>>]
              ELSE LET st == mergeFrom(
                                 [cells |-> cells,
                                  log |-> <<Call("getValues", 1, getLastRow(cells))>>],
                                 merged, d.data, header, duplicate, 0, <<>>)
                   IN  [threw |-> FALSE, cells |-> st.cells, log |-> st.log]
              : d \in decodeSheet(cells)}

\* ---------------------------------------------------------------- overwrite

\* overwrite, lines 118-119: const lastRow = sheet.getLastRow().
overwriteEnter(data, cells) == [data |-> data, lastRow |-> getLastRow(cells)]

\* overwrite deleting the old rows before it inserts the new ones.
overwriteDeleteFirst(cells, lastRow, data) == deleteRows(cells, 1, lastRow)

\* overwrite, line 120: sheet.insertRowsAfter(lastRow, data.length + 1)
overwriteInsert(cells, lastRow, data) == insertRowsAfter(cells, lastRow, Len(data) + 1)

\* overwrite, line 121: sheet.deleteRows(1, lastRow)
overwriteDelete(cells, lastRow, data) == deleteRows(cells, 1, lastRow)

\* overwrite, lines 124-129: the header row, then one row per record.
overwriteValues(header, data) ==
    <<header>> \o [n \in 1..Len(data) |-> project(header, data[n])]

overwriteWrite(cells, header, data) ==
    setValues(cells, 1, Len(header), overwriteValues(header, data))

\* ---------------------------------------------------------------- Mapper

\* The filter of deleteBy without its negation.
deleteByFilterInverted(records, ids) == SelectSeq(records, LAMBDA item : toKey(item) \in ids)

\* deleteBy: this.readAll().filter(item => !pred(item)), pred being "the
\* identifier is in ids".
deleteByFilter(records, ids) == SelectSeq(records, LAMBDA item : ~(toKey(item) \in ids))

\* ---------------------------------------------------------------- the state machine

\* One data row of an initial sheet: an identifier and a value or an empty cell.
DataRow(i, v) == [c \in 1..NumColumns |-> IF c = 1 THEN i ELSE IF c = 2 THEN v ELSE Blank]

HeaderRow == [c \in 1..NumColumns |-> IF c <= Len(SheetHeader) THEN SheetHeader[c] ELSE Blank]

Blanks(k) == [r \in 1..k |-> BlankRow]

\* The initial sheets: an empty one, or the header row and up to n data rows;
\* below them the unused rows (a sheet has at least one row).
InitSheets(n) ==
    {Blanks(k + 1) : k \in Spares}
    \cup {<<HeaderRow>> \o rows \o Blanks(k) :
              rows \in SeqsUpTo({DataRow(i, v) : i \in SheetIds, v \in SheetVals}, n),
              k \in Spares}

NoOp == [name |-> "none", header |-> <<>>, data |-> <<>>, duplicate |-> FALSE, pred |-> {}]

NoLocal == [data |-> <<>>, lastRow |-> 0]

Init(sheets) ==
    /\ sheet \in sheets
    /\ pre = sheet
    /\ op = NoOp
    /\ pc = "ready"
    /\ local = NoLocal
    /\ log = <<>>

\* A call of updateOrInsertBy(sheet, header, data, toKey, duplicate).
UpdateOrInsertBy(header, data, duplicate) ==
    /\ pc = "ready"
    /\ \E r \in updateOrInsertBy(sheet, header, data, duplicate) :
          /\ sheet' = r.cells
          /\ log' = r.log
          /\ pc' = IF r.threw THEN "threw" ELSE "done"
    /\ pre' = sheet
    /\ op' = [NoOp EXCEPT !.name = "updateOrInsertBy", !.header = header,
                          !.data = data, !.duplicate = duplicate]
    /\ UNCHANGED local

\* A call of Mapper.upsert(data) on a mapper bound to keys: duplicate is left
\* to its default.
Upsert(keys, data) ==
    /\ pc = "ready"
    /\ \E r \in updateOrInsertBy(sheet, keys, data, FALSE) :
          /\ sheet' = r.cells
          /\ log' = r.log
          /\ pc' = IF r.threw THEN "threw" ELSE "done"
    /\ pre' = sheet
    /\ op' = [NoOp EXCEPT !.name = "upsert", !.header = keys, !.data = data]
    /\ UNCHANGED local

\* A call of append(sheet, keys, data).
AppendCall(keys, data) ==
    /\ pc = "ready"
    /\ LET st == append([cells |-> sheet, log |-> <<>>], keys, data)
       IN  sheet' = st.cells /\ log' = st.log
    /\ pc' = "done"
    /\ pre' = sheet
    /\ op' = [NoOp EXCEPT !.name = "append", !.header = keys, !.data = data]
    /\ UNCHANGED local

\* A call of overwrite(sheet, header, data), up to its reading of lastRow.
Overwrite(header, data) ==
    /\ pc = "ready"
    /\ pc' = "overwrite"
    /\ pre' = sheet
    /\ op' = [NoOp EXCEPT !.name = "overwrite", !.header = header, !.data = data]
    /\ local' = overwriteEnter(data, sheet)
    /\ UNCHANGED <<sheet, log>>

\* A call of Mapper.deleteBy(pred) on a mapper bound to keys, up to overwrite's
\* reading of lastRow.
DeleteBy(keys, ids) ==
    /\ pc = "ready"
    /\ \E d \in decodeSheet(sheet) :
          IF d.threw
          THEN /\ pc' = "threw"
               /\ log' = <<Call("getRange", 1, 0)>>
               /\ local' = local
          ELSE /\ pc' = "overwrite"
               /\ log' = <<Call("getValues", 1, getLastRow(sheet))>>
               /\ local' = overwriteEnter(deleteByFilter(d.data, ids), sheet)
    /\ pre' = sheet
    /\ op' = [NoOp EXCEPT !.name = "deleteBy", !.header = keys, !.pred = ids]
    /\ UNCHANGED sheet

\* overwrite: if (lastRow > 0) insertRowsAfter(lastRow, data.length + 1).
OverwriteInsert ==
    /\ pc = "overwrite"
    /\ IF local.lastRow > 0
       THEN /\ sheet' = overwriteInsert(sheet, local.lastRow, local.data)
            /\ log' = Append(log, Call("insertRowsAfter", local.lastRow, Len(local.data) + 1))
            /\ pc' = "inserted"
       ELSE /\ pc' = "cleared"
            /\ UNCHANGED <<sheet, log>>
    /\ UNCHANGED <<pre, op, local>>

\* overwrite: deleteRows(1, lastRow).
OverwriteDelete ==
    /\ pc = "inserted"
    /\ sheet' = overwriteDelete(sheet, local.lastRow, local.data)
    /\ log' = Append(log, Call("deleteRows", 1, local.lastRow))
    /\ pc' = "cleared"
    /\ UNCHANGED <<pre, op, local>>

\* overwrite: range.setValues(values).
OverwriteWrite ==
    /\ pc = "cleared"
    /\ sheet' = overwriteWrite(sheet, op.header, local.data)
    /\ log' = Append(log, Call("setValues", 1, Len(local.data) + 1))
    /\ pc' = "done"
    /\ UNCHANGED <<pre, op, local>>

\* The merge engine and append.
MergeNext ==
    \/ \E header \in Headers, data \in Batches, duplicate \in BOOLEAN :
          UpdateOrInsertBy(header, data, duplicate)
    \/ \E keys \in Headers, data \in Batches : Upsert(keys, data)
    \/ \E keys \in Headers, data \in Batches : AppendCall(keys, data)

MergeInit == Init(InitSheets(MaxExisting))

MergeSpec == MergeInit /\ [][MergeNext]_vars

\* overwrite, directly and through Mapper.deleteBy.
RewriteNext ==
    \/ \E header \in Headers, data \in Batches : Overwrite(header, data)
    \/ \E keys \in Headers, ids \in Preds : DeleteBy(keys, ids)
    \/ OverwriteInsert
    \/ OverwriteDelete
    \/ OverwriteWrite

RewriteInit == Init(InitSheets(MaxData))

RewriteSpec == RewriteInit /\ [][RewriteNext]_vars

\* ---------------------------------------------------------------- the claims' terms

\* The call is a merge (updateOrInsertBy, directly or through Mapper.upsert).
IsMerge == op.name \in {"updateOrInsertBy", "upsert"}

\* The merge has returned.
MergeDone == IsMerge /\ pc = "done"

\* The records of the sheet as it was when the call began.
Existing ==
    IF getLastRow(pre) = 0 THEN <<>>
    ELSE decodeRangeWith(getValues(pre, getLastRow(pre), getLastColumn(pre)))

\* The positions of the batch that hold the first record of their identifier.
FirstIdx(data) ==
    {n \in 1..Len(data) : \A m \in 1..(n - 1) : toKey(data[m]) # toKey(data[n])}

\* The first record of every identifier of the batch, in batch order.
Firsts(data) ==
    LET idx == SelectSeq([n \in 1..Len(data) |-> n], LAMBDA n : n \in FirstIdx(data))
    IN  [j \in 1..Len(idx) |-> data[idx[j]]]

\* The records of ex (counted from 1) that carry the identifier of u.
MatchRows(ex, u) == {i \in 1..Len(ex) : toKey(ex[i]) = toKey(u)}

\* The first record of the batch that carries identifier k.
Incoming(k) == op.data[CHOOSE n \in FirstIdx(op.data) : toKey(op.data[n]) = k]

\* The first records of the batch whose identifier no record of ex carries, in
\* batch order.
Unmatched(ex) == SelectSeq(Firsts(op.data), LAMBDA u : MatchRows(ex, u) = {})

\* What the row of existing record i (of ex) must hold once u has been merged
\* into it.
MergedRow(ex, i, u) ==
    [c \in 1..NumColumns |->
        IF c <= Len(op.header)
        THEN IF op.header[c] \in DOMAIN u THEN u[op.header[c]]
             ELSE CellOf(Get(ex[i], op.header[c]))
        ELSE pre[i + 1][c]]

\* The row a record takes when written under the header of the call.
WrittenRow(u) ==
    [c \in 1..NumColumns |->
        IF c <= Len(op.header) THEN CellOf(Get(u, op.header[c])) ELSE Blank]

\* The first row of the sheet, when the call began, started with the header.
HeaderInPlace ==
    /\ getLastRow(pre) >= 1
    /\ \A c \in 1..Len(op.header) : pre[1][c] = op.header[c]

\* The service calls of the log that write cells.
Writes == SelectSeq(log, LAMBDA e : e.call = "setValues")

\* ---------------------------------------------------------------- C1

\* C1 (as stated): for every sheet, header and batch, a second run of
\* updateOrInsertBy with the same batch leaves the sheet as the first run left it.
C1_IdempotentAlways ==
    MergeDone =>
        \A r \in updateOrInsertBy(sheet, op.header, op.data, op.duplicate) :
            ~r.threw /\ r.cells = sheet

\* C1 (amended): when the first row of the sheet starts with the header of the
\* call, a second run with the same batch leaves the sheet as the first run left it.
C1_IdempotentUnderHeader ==
    (MergeDone /\ HeaderInPlace) =>
        \A r \in updateOrInsertBy(sheet, op.header, op.data, op.duplicate) :
            ~r.threw /\ r.cells = sheet

\* A first run that both updated a row in place and appended one.
C1_Witness ==
    /\ MergeDone /\ HeaderInPlace
    /\ Len(Unmatched(Existing)) > 0
    /\ \E i \in 1..Len(Existing) : sheet[i + 1] # pre[i + 1]

\* ---------------------------------------------------------------- C2

\* C2: the first row that carries the identifier of an incoming record (sheet row
\* = index of the record + 2) holds, in every column of the header, the incoming
\* value if the record has the field and otherwise the value the row held; the
\* columns past the header keep their cells.
C2_MergeInPlace ==
    MergeDone =>
        LET ex == Existing
        IN  \A n \in FirstIdx(op.data) :
                LET u == op.data[n]
                    rows == MatchRows(ex, u)
                IN  rows # {} =>
                        LET i == CHOOSE j \in rows : \A l \in rows : j <= l
                        IN  sheet[(i - 1) + 2] = MergedRow(ex, i, u)

\* A row updated by a record without field a: the value of a is kept, and the
\* same batch changed the value of a in another row.
C2_Witness ==
    /\ MergeDone /\ HeaderInPlace /\ op.header = <<"id", "a">>
    /\ \E n \in FirstIdx(op.data) :
          /\ "a" \notin DOMAIN op.data[n]
          /\ \E i \in MatchRows(Existing, op.data[n]) :
                pre[i + 1][2] # Blank /\ sheet[i + 1] = pre[i + 1]
    /\ \E i \in 1..Len(Existing) : sheet[i + 1][2] # pre[i + 1][2]

\* ---------------------------------------------------------------- C3

\* C3: of the rows that share the identifier of an incoming record, duplicate =
\* TRUE updates every one with its merge, duplicate = FALSE (Mapper.upsert's) only
\* the first, the later ones keeping their cells.
C3_Duplicates ==
    MergeDone =>
        LET ex == Existing
        IN  /\ (op.name = "upsert" => ~op.duplicate)
            /\ \A n \in FirstIdx(op.data) :
                  LET u == op.data[n]
                      rows == MatchRows(ex, u)
                  IN  \A i \in rows :
                          IF op.duplicate \/ (\A l \in rows : i <= l)
                          THEN sheet[i + 1] = MergedRow(ex, i, u)
                          ELSE sheet[i + 1] = pre[i + 1]

\* Two rows of one identifier, both changed by a run with duplicate = TRUE.
C3_Witness ==
    /\ MergeDone /\ HeaderInPlace /\ op.duplicate
    /\ \E n \in FirstIdx(op.data) :
          \E i, j \in MatchRows(Existing, op.data[n]) :
              i < j /\ sheet[i + 1] # pre[i + 1] /\ sheet[j + 1] # pre[j + 1]

\* ---------------------------------------------------------------- C4

\* The general part of C4: the records that match no row are written nowhere in
\* place; once every in-place update is done, one setValues call writes them
\* below the last row, in the order of their first occurrence in the batch.
C4_QueuedThenAppended ==
    MergeDone =>
        LET last == getLastRow(pre)
            new == Unmatched(Existing)
            inPlace == SelectSeq(Writes, LAMBDA e : e.row <= last)
            below == SelectSeq(Writes, LAMBDA e : e.row > last)
        IN  /\ Writes = inPlace \o below
            /\ \A j \in 1..Len(inPlace) : inPlace[j].row >= 2 /\ inPlace[j].n = 1
            /\ below = IF Len(new) = 0 THEN <<>>
                       ELSE <<Call("setValues", last + 1, Len(new))>>
            /\ \A j \in 1..Len(new) : sheet[last + j] = WrittenRow(new[j])
            /\ getLastRow(sheet) = last + Len(new)

\* The particular case of C4: a merge of one record into an empty sheet ends with
\* exactly one row, which holds the record.
C4_OneRowIntoEmptySheet ==
    (IsMerge /\ pc \in {"done", "threw"} /\ getLastRow(pre) = 0 /\ Len(op.data) = 1) =>
        /\ pc = "done"
        /\ getLastRow(sheet) = 1
        /\ sheet[1] = WrittenRow(op.data[1])

\* C4: an incoming record that matches no row is queued and appended, after all
\* in-place updates, in one append call, in batch order; in particular one record
\* merged into an empty sheet gives exactly one appended row holding it.
C4_AppendAfterUpdates == C4_QueuedThenAppended /\ C4_OneRowIntoEmptySheet

\* ---------------------------------------------------------------- C5

\* C5: only the first record of every identifier of the batch is applied, the kept
\* records in their batch order: the run writes what a run with the later records
\* of each identifier struck from the batch writes, call for call; a row of an
\* identifier of the batch holds what it held or its merge with the first record
\* of that identifier.
C5_FirstSeenWins ==
    MergeDone =>
        LET ex == Existing
            new == Unmatched(ex)
            last == getLastRow(pre)
        IN  /\ \E r \in updateOrInsertBy(pre, op.header, Firsts(op.data), op.duplicate) :
                  ~r.threw /\ r.cells = sheet /\ r.log = log
            /\ \A j \in 1..Len(new) : sheet[last + j] = WrittenRow(new[j])
            /\ \A n \in 1..Len(op.data) :
                  LET u == Incoming(toKey(op.data[n]))
                  IN  \A i \in MatchRows(ex, u) :
                          sheet[i + 1] \in {pre[i + 1], MergedRow(ex, i, u)}

\* A batch whose two records share an identifier and differ, the first of which
\* changed a row that the second would have left alone.
C5_Witness ==
    /\ MergeDone /\ HeaderInPlace /\ Len(op.data) = 2
    /\ toKey(op.data[1]) = toKey(op.data[2])
    /\ "a" \in DOMAIN op.data[1] /\ "a" \notin DOMAIN op.data[2]
    /\ \E i \in MatchRows(Existing, op.data[1]) : sheet[i + 1] # pre[i + 1]

\* ---------------------------------------------------------------- C6

\* The records of ex deleteBy keeps: those whose identifier the predicate does
\* not name.
Kept(ex) == SelectSeq(ex, LAMBDA item : toKey(item) \notin op.pred)

\* C6: after deleteBy the sheet holds the header row of the bound keys, then one
\* row per record the predicate rejected, in their order, and nothing else.
C6_DeleteBy ==
    (op.name = "deleteBy" /\ pc = "done") =>
        LET kept == Kept(Existing)
            after == decodeRangeWith(
                         getValues(sheet, getLastRow(sheet), getLastColumn(sheet)))
        IN  /\ getLastRow(sheet) = Len(kept) + 1
            /\ sheet[1] = [c \in 1..NumColumns |->
                              IF c <= Len(op.header) THEN op.header[c] ELSE Blank]
            /\ \A n \in 1..Len(kept) : sheet[n + 1] = WrittenRow(kept[n])
            /\ Len(after) = Len(kept)
            /\ \A n \in 1..Len(kept) :
                  /\ toKey(after[n]) \notin op.pred
                  /\ \A c \in 1..Len(op.header) :
                         Get(after[n], op.header[c]) = CellOf(Get(kept[n], op.header[c]))

\* A deleteBy that removed a record lying between two it kept.
C6_Witness ==
    /\ op.name = "deleteBy" /\ pc = "done"
    /\ Len(Existing) = 3 /\ Len(Kept(Existing)) = 2
    /\ toKey(Existing[2]) \in op.pred
    /\ Existing[1] # Existing[3]

\* ---------------------------------------------------------------- C7

\* The call runs overwrite (directly or through deleteBy).
InOverwrite == op.name \in {"overwrite", "deleteBy"}

\* The calls overwrite itself has made so far.
OverwriteCalls == SelectSeq(log, LAMBDA e : e.call # "getValues")

\* C7: on a sheet with lastRow > 0 overwrite first inserts data.length + 1 blank
\* rows after lastRow, then deletes the first lastRow rows, then writes the header
\* and the data; the sheet has at least one row in every state on the way.
C7_InsertThenDelete ==
    /\ Len(sheet) >= 1
    /\ (InOverwrite /\ local.lastRow > 0) =>
          LET lastRow == local.lastRow
              n == Len(local.data)
              ins == Call("insertRowsAfter", lastRow, n + 1)
              del == Call("deleteRows", 1, lastRow)
              wr == Call("setValues", 1, n + 1)
          IN  /\ pc = "overwrite" => OverwriteCalls = <<>> /\ sheet = pre
              /\ pc = "inserted" =>
                    /\ OverwriteCalls = <<ins>>
                    /\ Len(sheet) = Len(pre) + n + 1
                    /\ SubSeq(sheet, 1, lastRow) = SubSeq(pre, 1, lastRow)
                    /\ getLastRow(sheet) = lastRow
              /\ pc = "cleared" =>
                    /\ OverwriteCalls = <<ins, del>>
                    /\ Len(sheet) = Len(pre) + n + 1 - lastRow
                    /\ getLastRow(sheet) = 0
              /\ pc = "done" =>
                    /\ OverwriteCalls = <<ins, del, wr>>
                    /\ Len(sheet) = Len(pre) + n + 1 - lastRow

\* An overwrite of a sheet without a spare row, between its insert and its delete.
C7_Witness ==
    /\ InOverwrite /\ pc = "inserted"
    /\ local.lastRow = Len(pre)
    /\ Len(local.data) = 0

\* ---------------------------------------------------------------- C8

\* C8: append with an empty batch calls no range write and leaves the sheet as it
\* was; updateOrInsertBy with an empty batch reads nothing and writes nothing.
C8_EmptyBatch ==
    (op.name \in {"append", "updateOrInsertBy", "upsert"} /\ Len(op.data) = 0) =>
        /\ pc = "done"
        /\ log = <<>>
        /\ sheet = pre

\* An append of an empty batch to a sheet that has rows.
C8_Witness ==
    /\ op.name = "append" /\ Len(op.data) = 0 /\ pc = "done"
    /\ getLastRow(pre) > 1

\* ---------------------------------------------------------------- C9

\* C9: decoding the grid overwrite builds from a header and a batch gives back,
\* in order, one record per record of the batch, with the fields of the header and
\* no others, every field reading as it reads in the batch's record.
C9_RoundTrip ==
    (op.name = "overwrite") =>
        LET decoded == decodeRangeWith(overwriteValues(op.header, op.data))
        IN  /\ Len(decoded) = Len(op.data)
            /\ \A n \in 1..Len(op.data) :
                  /\ DOMAIN decoded[n] = {op.header[c] : c \in 1..Len(op.header)}
                  /\ \A k \in DOMAIN decoded[n] : decoded[n][k] = Get(op.data[n], k)

\* A batch of two different records, one with both fields, under a header that
\* does not follow the order of the record's fields.
C9_Witness ==
    /\ op.name = "overwrite" /\ op.header = <<"a", "id">>
    /\ Len(op.data) = 2 /\ op.data[1] # op.data[2]
    /\ DOMAIN op.data[1] = {"id", "a"}

\* ---------------------------------------------------------------- C10

\* C10: updateOrInsertBy leaves the header row and every data row whose identifier
\* no incoming record carries as they were, deletes and moves no row, and ends
\* with as many rows more as the batch has identifiers that matched no row.
C10_Frame ==
    MergeDone =>
        LET ex == Existing
            ids == {toKey(op.data[n]) : n \in 1..Len(op.data)}
            old == {toKey(ex[i]) : i \in 1..Len(ex)}
        IN  /\ getLastRow(pre) >= 1 => sheet[1] = pre[1]
            /\ \A i \in 1..Len(ex) :
                  IF toKey(ex[i]) \notin ids
                  THEN sheet[i + 1] = pre[i + 1]
                  ELSE sheet[i + 1] \in {pre[i + 1], MergedRow(ex, i, Incoming(toKey(ex[i])))}
            /\ Len(sheet) >= Len(pre)
            /\ getLastRow(sheet) = getLastRow(pre) + Cardinality(ids \ old)

\* A merge that updated one row, left another alone and appended a third.
C10_Witness ==
    /\ MergeDone /\ HeaderInPlace
    /\ \E i, j \in 1..Len(Existing) :
          /\ sheet[i + 1] # pre[i + 1]
          /\ toKey(Existing[j]) \notin {toKey(op.data[n]) : n \in 1..Len(op.data)}
    /\ getLastRow(sheet) = getLastRow(pre) + 1

====
